---- MODULE Spec2Model ----
(***************************************************************************)
(* The post-interaction state of src/src/components/shared/PostStats.tsx:  *)
(* the local like sequence and the saved flag of one content item for one  *)
(* viewer, the two click handlers that toggle them, the derivation effect  *)
(* of isSaved, and the remote mutations the handlers issue.                *)
(***************************************************************************)
EXTENDS Integers, Sequences, FiniteSets, TLC

VARIABLES
    post,         \* the `post` prop: [id, likes |-> [isArray, items]]
    userId,       \* the `userId` prop
    currentUser,  \* data of useGetCurrentUser(): [defined, hasSave, save]
    likes,        \* useState(likesList)
    isSaved,      \* useState(false), written by the effect and by handleSavePost
    calls,        \* every mutate() call issued so far, in call order
    pending,      \* indices of calls whose remote operation has not settled
    remoteSave,   \* the saved records of the viewer held by the backend
    remoteLikes,  \* the like list of the item held by the backend
    stale,        \* the viewer query is to be fetched again
    views,        \* the views of the item mounted by several viewers: [userId, likes, n]
    rejected,     \* history: indices of calls whose remote operation failed
    likeLog,      \* history: the value of `likes` at mount and after each handleLikePost
    nSave         \* history: number of handleSavePost invocations

vars == <<post, userId, currentUser, likes, isSaved, calls, pending, remoteSave,
          remoteLikes, stale, views, rejected, likeLog, nSave>>

(***************************************************************************)
(* Bounds of the model.                                                    *)
(***************************************************************************)
MaxLikes == 2      \* longest like list of an item snapshot
MaxToggles == 3    \* handleLikePost invocations per mount
MaxSave == 2       \* longest saved-record collection of a viewer snapshot
MaxSaveCalls == 2  \* handleSavePost invocations per mount
MaxRemoteCalls == 3  \* calls issued to the backend in one behaviour
MaxViewToggles == 1  \* handleLikePost invocations of each of several views

(***************************************************************************)
(* Identifiers.  Absent stands for an identifier that is missing at run    *)
(* time: an undefined `$id`, a null `record.post`, an empty `userId`.      *)
(***************************************************************************)
Absent == "absent"
Users == {"U1", "U2", "U3"}
ItemIds == {"P1", "P2"}
RecordIds == {"R8", "R9"}

SeqsUpTo(S, n) == UNION {[1..k -> S] : k \in 0..n}

\* The values `post.likes` can take: an array of user documents, or
\* something that is not an array (null, undefined, malformed).
UserDocs == [id : Users]
LikesValues ==
    {[isArray |-> TRUE, items |-> s] : s \in SeqsUpTo(UserDocs, MaxLikes)}
        \cup {[isArray |-> FALSE, items |-> <<>>]}

(***************************************************************************)
(* Pure functions of the component.                                        *)
(***************************************************************************)
\* post.likes && Array.isArray(post.likes) ? post.likes.map(u => u.$id) : []
likesList(p) ==
    IF p.likes.isArray
        THEN [i \in 1..Len(p.likes.items) |-> p.likes.items[i].id]
        ELSE <<>>

\* likesArray.includes(userId)
checkIsLiked(likesArray, u) == \E i \in 1..Len(likesArray) : likesArray[i] = u

\* newLikes.filter((id) => id !== userId)
FilterOut(s, u) == SelectSeq(s, LAMBDA x : x # u)

\* A toggle that drops only the first occurrence of the viewer.
RemoveFirst(s, u) ==
    LET i == CHOOSE j \in 1..Len(s) : s[j] = u /\ \A k \in 1..(j - 1) : s[k] # u
    IN  [k \in 1..(Len(s) - 1) |-> IF k < i THEN s[k] ELSE s[k + 1]]

NewLikes_RemoveFirst(s, u) ==
    IF checkIsLiked(s, u) THEN RemoveFirst(s, u) ELSE Append(s, u)

\* A toggle that appends without looking for the viewer first.
NewLikes_AlwaysPush(s, u) == Append(s, u)

\* The new like sequence handleLikePost computes from `likes` and `userId`.
NewLikes(s, u) ==
    IF checkIsLiked(s, u) THEN FilterOut(s, u) ELSE Append(s, u)

(***************************************************************************)
(* Remote mutation calls.                                                  *)
(***************************************************************************)
LikePostCall(postId, likesArray) ==
    [op |-> "likePost", postId |-> postId, likesArray |-> likesArray,
     userId |-> Absent, id |-> Absent]

SavePostCall(postId, u) ==
    [op |-> "savePost", postId |-> postId, likesArray |-> <<>>,
     userId |-> u, id |-> Absent]

DeleteSavedPostCall(recordId) ==
    [op |-> "deleteSavedPost", postId |-> Absent, likesArray |-> <<>>,
     userId |-> Absent, id |-> recordId]

\* mutate(): the call is issued and is in flight until it settles.
Issue(c) ==
    /\ calls' = Append(calls, c)
    /\ pending' = pending \cup {Len(calls) + 1}

CallsOf(op) == SelectSeq(calls, LAMBDA c : c.op = op)

(***************************************************************************)
(* Viewer snapshots.                                                       *)
(***************************************************************************)
\* A saved record: its own identifier and the identifier of the item it
\* references (`record.post?.$id`), either of which may be missing.
SavedRecs == [id : RecordIds \cup {Absent}, post : ItemIds \cup {Absent}]

\* Saved-record collections: the records of one collection differ in `id`.
SaveLists ==
    {s \in SeqsUpTo(SavedRecs, MaxSave) :
        \A i, j \in 1..Len(s) : i # j => s[i].id # s[j].id}

\* currentUser is undefined while the query has no data.
NoUser == [defined |-> FALSE, hasSave |-> FALSE, save |-> <<>>]

\* A viewer document whose `save` field is missing.
NoSaveUser == [defined |-> TRUE, hasSave |-> FALSE, save |-> <<>>]

ViewerSnapshots ==
    {NoUser, NoSaveUser}
        \cup {[defined |-> TRUE, hasSave |-> TRUE, save |-> s] : s \in SaveLists}

\* currentUser?.save?.find(record => record.post?.$id === post?.$id), as the
\* index of the record found, 0 for undefined.  Two missing identifiers
\* compare equal, as undefined === undefined does.
savedPostRecord(cu, p) ==
    IF cu.defined /\ cu.hasSave /\ \E i \in 1..Len(cu.save) : cu.save[i].post = p.id
        THEN CHOOSE i \in 1..Len(cu.save) :
                /\ cu.save[i].post = p.id
                /\ \A j \in 1..(i - 1) : cu.save[j].post # p.id
        ELSE 0

(***************************************************************************)
(* The like side.                                                          *)
(***************************************************************************)
\* handleLikePost sending the pre-toggle `likes` state to the remote.
HandleLikePost_StaleCall ==
    /\ Len(likeLog) <= MaxToggles
    /\ LET newLikes == NewLikes(likes, userId)
       IN  /\ likes' = newLikes
           /\ likeLog' = Append(likeLog, newLikes)
           /\ IF post.id # Absent
                 THEN Issue(LikePostCall(post.id, likes))
                 ELSE UNCHANGED <<calls, pending>>
    /\ UNCHANGED <<views, rejected, remoteLikes, post, userId, currentUser, isSaved,
                   remoteSave, stale, nSave>>

\* handleLikePost: toggle the viewer in the local sequence, then issue the
\* remote update when the item identifier is present.
HandleLikePost ==
    /\ Len(likeLog) <= MaxToggles
    /\ LET newLikes == NewLikes(likes, userId)
       IN  /\ likes' = newLikes
           /\ likeLog' = Append(likeLog, newLikes)
           /\ IF post.id # Absent
                 THEN Issue(LikePostCall(post.id, newLikes))
                 ELSE UNCHANGED <<calls, pending>>
    /\ UNCHANGED <<views, rejected, remoteLikes, post, userId, currentUser, isSaved,
                   remoteSave, stale, nSave>>

\* The parent re-renders the component with a new item snapshot whose like
\* list differs.  useState keeps `likes`: its argument is read at mount only.
ItemSnapshotChange ==
    /\ \E l \in LikesValues :
          /\ l # post.likes
          /\ post' = [post EXCEPT !.likes = l]
    /\ UNCHANGED <<views, rejected, remoteLikes, userId, currentUser, likes, isSaved,
                   calls, pending, remoteSave, stale, likeLog, nSave>>

\* A remote operation settles; the component registers no callback on it.
Settle ==
    /\ \E i \in pending : pending' = pending \ {i}
    /\ UNCHANGED <<views, rejected, remoteLikes, post, userId, currentUser, likes,
                   isSaved, calls, remoteSave, stale, likeLog, nSave>>

(***************************************************************************)
(* The save side.                                                          *)
(***************************************************************************)
\* handleSavePost choosing its branch from the local isSaved flag.
HandleSavePost_ByFlag ==
    /\ nSave < MaxSaveCalls
    /\ nSave' = nSave + 1
    /\ LET i == savedPostRecord(currentUser, post)
       IN  IF isSaved /\ i # 0
              THEN /\ isSaved' = FALSE
                   /\ IF currentUser.save[i].id # Absent
                         THEN Issue(DeleteSavedPostCall(currentUser.save[i].id))
                         ELSE UNCHANGED <<calls, pending>>
              ELSE IF post.id # Absent /\ userId # Absent
                      THEN /\ Issue(SavePostCall(post.id, userId))
                           /\ isSaved' = TRUE
                      ELSE UNCHANGED <<isSaved, calls, pending>>
    /\ UNCHANGED <<views, rejected, remoteLikes, post, userId, currentUser, likes,
                   remoteSave, stale, likeLog>>

\* handleSavePost: unsave through the resolved record, else save.
HandleSavePost ==
    /\ nSave < MaxSaveCalls
    /\ nSave' = nSave + 1
    /\ LET i == savedPostRecord(currentUser, post)
       IN  IF i # 0
              THEN /\ isSaved' = FALSE
                   /\ IF currentUser.save[i].id # Absent
                         THEN Issue(DeleteSavedPostCall(currentUser.save[i].id))
                         ELSE UNCHANGED <<calls, pending>>
              ELSE IF post.id # Absent /\ userId # Absent
                      THEN /\ Issue(SavePostCall(post.id, userId))
                           /\ isSaved' = TRUE
                      ELSE UNCHANGED <<isSaved, calls, pending>>
    /\ UNCHANGED <<views, rejected, remoteLikes, post, userId, currentUser, likes,
                   remoteSave, stale, likeLog>>

\* The effect body: setIsSaved(!!savedPostRecord).
Derive(cu, p) == savedPostRecord(cu, p) # 0

\* The viewer query delivers a different snapshot; the component renders
\* again and, a dependency having changed, the effect runs.
ViewerSnapshotChange ==
    /\ \E cu \in ViewerSnapshots :
          /\ cu # currentUser
          /\ currentUser' = cu
          /\ isSaved' = Derive(cu, post)
    /\ UNCHANGED <<views, rejected, remoteLikes, post, userId, likes, calls, pending,
                   remoteSave, stale, likeLog, nSave>>

\* The state after mount (first render and first effect run) of a view of
\* an item with an empty like list.
InitSave ==
    /\ post \in [id : {Absent, "P1"}, likes : {[isArray |-> TRUE, items |-> <<>>]}]
    /\ userId \in {Absent, "U1"}
    /\ currentUser \in ViewerSnapshots
    /\ likes = likesList(post)
    /\ isSaved = Derive(currentUser, post)
    /\ calls = <<>>
    /\ pending = {}
    /\ rejected = {}
    /\ views = <<>>
    /\ remoteSave = <<>>
    /\ remoteLikes = <<>>
    /\ stale = FALSE
    /\ likeLog = <<likes>>
    /\ nSave = 0

NextSave == HandleSavePost \/ ViewerSnapshotChange

SpecSave == InitSave /\ [][NextSave]_vars

\* The state after mount of a view whose viewer query has no data.
InitLike ==
    /\ post \in [id : {Absent, "P1"}, likes : LikesValues]
    /\ userId \in Users \cup {Absent}
    /\ currentUser = NoUser
    /\ likes = likesList(post)
    /\ isSaved = FALSE
    /\ calls = <<>>
    /\ pending = {}
    /\ rejected = {}
    /\ views = <<>>
    /\ remoteSave = <<>>
    /\ remoteLikes = <<>>
    /\ stale = FALSE
    /\ likeLog = <<likes>>
    /\ nSave = 0

NextLike == HandleLikePost \/ ItemSnapshotChange \/ Settle

SpecLike == InitLike /\ [][NextLike]_vars

(***************************************************************************)
(* Properties of the like side.                                            *)
(***************************************************************************)
\* A step of handleLikePost.
LikeStep == Len(likeLog') = Len(likeLog) + 1

Count(s, u) == Cardinality({i \in 1..Len(s) : s[i] = u})
Range(s) == {s[i] : i \in 1..Len(s)}
Without(s, i) == [k \in 1..(Len(s) - 1) |-> IF k < i THEN s[k] ELSE s[k + 1]]

RECURSIVE AllRemoved(_, _)
AllRemoved(s, u) ==
    IF s = <<>> THEN <<>>
    ELSE IF Head(s) = u THEN AllRemoved(Tail(s), u)
    ELSE <<Head(s)>> \o AllRemoved(Tail(s), u)

C1_Scenario ==
    (likeLog[1] = <<"U2", "U3">> /\ userId = "U1" /\ Len(likeLog) = 2)
        => /\ likes = <<"U2", "U3", "U1">>
           /\ Len(likes) = 3
           /\ checkIsLiked(likes, userId)

RECURSIVE Toggled(_, _, _)
Toggled(s, u, k) == IF k = 0 THEN s ELSE NewLikes(Toggled(s, u, k - 1), u)

\* C2: with the item identifier present, n toggle-likes have issued exactly
\* n like-updates, in call order, and the k-th carries the item identifier
\* and the local like sequence as it stood after the k-th toggle, which is
\* the initial sequence toggled k times; whether earlier updates have
\* settled plays no part.
C2_UpdatesFollowToggles ==
    post.id # Absent =>
        /\ Len(CallsOf("likePost")) = Len(likeLog) - 1
        /\ \A k \in 1..(Len(likeLog) - 1) :
              /\ CallsOf("likePost")[k] = LikePostCall(post.id, likeLog[k + 1])
              /\ likeLog[k + 1] = Toggled(likeLog[1], userId, k)

\* Three toggle-likes were made, the first update settled before the later
\* ones were issued and the second is still in flight after the third.
C2_Witness ==
    /\ post.id # Absent
    /\ Len(likeLog) = 4
    /\ Len(calls) = 3
    /\ pending = {2}

\* C7 as stated: two toggle-likes in succession leave the membership set of
\* the local like sequence as it was, and one like-update was issued per
\* invocation.
C7_RoundTripCallsAlways ==
    /\ \A k \in 1..(Len(likeLog) - 2) : Range(likeLog[k + 2]) = Range(likeLog[k])
    /\ Len(CallsOf("likePost")) = Len(likeLog) - 1

\* C7 amended: two toggle-likes in succession leave the membership set of
\* the local like sequence as it was; one like-update was issued per
\* invocation when the item identifier is present, and none when it is
\* absent.
C7_RoundTrip ==
    /\ \A k \in 1..(Len(likeLog) - 2) : Range(likeLog[k + 2]) = Range(likeLog[k])
    /\ Len(CallsOf("likePost")) = IF post.id # Absent THEN Len(likeLog) - 1 ELSE 0

\* Two toggle-likes were made from a sequence holding the viewer and others,
\* and two updates were issued.
C7_Witness ==
    /\ Len(likeLog) = 3
    /\ checkIsLiked(likeLog[1], userId)
    /\ Len(likeLog[1]) = 2
    /\ likes # likeLog[1]
    /\ Len(CallsOf("likePost")) = 2

\* C8: the local like sequence holds each viewer identifier at most once.
C8_NoDuplicateLikes == \A u \in Users \cup {Absent} : Count(likes, u) <= 1

\* C10: when the like list of the item snapshot changes while the view is
\* mounted, the local like sequence becomes the identifiers of the new list.
C10_LikesFollowSnapshot ==
    [][post'.likes # post.likes => likes' = likesList(post')]_vars

(***************************************************************************)
(* Both handlers on a fixed item and viewer snapshot.                      *)
(***************************************************************************)
InitClicks ==
    /\ post \in [id : {Absent, "P1"}, likes : LikesValues]
    /\ userId \in {Absent, "U1"}
    /\ currentUser \in ViewerSnapshots
    /\ likes = likesList(post)
    /\ isSaved = Derive(currentUser, post)
    /\ calls = <<>>
    /\ pending = {}
    /\ rejected = {}
    /\ views = <<>>
    /\ remoteSave = <<>>
    /\ remoteLikes = <<>>
    /\ stale = FALSE
    /\ likeLog = <<likes>>
    /\ nSave = 0

NextClicks == HandleLikePost \/ HandleSavePost \/ Settle

SpecClicks == InitClicks /\ [][NextClicks]_vars

(***************************************************************************)
(* Properties of the save side.                                            *)
(***************************************************************************)
\* A step of handleSavePost.
SaveStep == nSave' = nSave + 1

\* The records of the viewer snapshot that reference the item.
RefsTo(cu, itemId) ==
    {i \in 1..Len(cu.save) : cu.save[i].post # Absent /\ cu.save[i].post = itemId}

FirstOf(S) == CHOOSE i \in S : \A j \in S : i <= j

\* C3: a toggle-save with the item and viewer identifiers present, and the
\* identifier of the resolved record present when one is resolved, issues
\* exactly one remote operation: with a record resolved it sets isSaved to
\* false and issues a delete of that record's identifier; with none it sets
\* isSaved to true and issues a create binding the viewer to the item.
C3_ExactlyOneOperation ==
    [][(/\ SaveStep
        /\ post.id # Absent
        /\ userId # Absent
        /\ RefsTo(currentUser, post.id) # {}
              => currentUser.save[FirstOf(RefsTo(currentUser, post.id))].id # Absent)
       => IF RefsTo(currentUser, post.id) # {}
             THEN /\ isSaved' = FALSE
                  /\ calls' = Append(calls, DeleteSavedPostCall(
                        currentUser.save[FirstOf(RefsTo(currentUser, post.id))].id))
             ELSE /\ isSaved' = TRUE
                  /\ calls' = Append(calls, SavePostCall(post.id, userId))]_vars

\* A create from an unsaved snapshot, then, the snapshot having delivered
\* record R9 for the item, a delete of R9.
C3_Witness ==
    /\ nSave = 2
    /\ calls = <<SavePostCall("P1", "U1"), DeleteSavedPostCall("R9")>>
    /\ ~isSaved

\* C4: after a derivation pass isSaved is true exactly when the saved-record
\* collection of the current viewer snapshot holds a record whose referenced
\* item identifier is the identifier of the current item.
C4_DerivedFromSnapshot ==
    [][currentUser' # currentUser
          => (isSaved' <=> RefsTo(currentUser', post'.id) # {})]_vars

\* C5: a toggle-like with the item identifier absent changes neither the
\* local like sequence nor the calls issued, and a toggle-save whose
\* resolved record has no identifier changes neither isSaved nor the calls
\* issued.
C5_MissingIdIsNoOp ==
    [][/\ (LikeStep /\ post.id = Absent) => (likes' = likes /\ calls' = calls)
       /\ (/\ SaveStep
           /\ savedPostRecord(currentUser, post) # 0
           /\ currentUser.save[savedPostRecord(currentUser, post)].id = Absent)
              => (isSaved' = isSaved /\ calls' = calls)]_vars

\* C6: a toggle-save with the item identifier absent issues no create and no
\* delete and leaves isSaved as it was.
C6_NoItemIdNoSave ==
    [][(SaveStep /\ post.id = Absent) => (isSaved' = isSaved /\ calls' = calls)]_vars

(***************************************************************************)
(* The save side against the backend: the mutations settle, the viewer     *)
(* query is fetched again and the effect reconciles isSaved.               *)
(***************************************************************************)
\* The saved records the backend can hold: each has its identifier; the
\* item a record references may be gone.
RemoteSaveLists == {s \in SaveLists : \A i \in 1..Len(s) : s[i].id # Absent}

\* The viewer snapshot the query returns for the backend's records.
SnapshotOf(rs) == [defined |-> TRUE, hasSave |-> TRUE, save |-> rs]

\* What a settled call does to the backend's saved records.
Applied(rs, c, newId) ==
    IF c.op = "savePost" THEN Append(rs, [id |-> newId, post |-> c.postId])
    ELSE IF c.op = "deleteSavedPost" THEN SelectSeq(rs, LAMBDA r : r.id # c.id)
    ELSE rs

\* What a settled call does to the backend's like list of the item: a
\* like-update replaces the whole list.
AppliedLikes(ls, c) == IF c.op = "likePost" THEN c.likesArray ELSE ls

\* The identifiers the backend gives to the records it creates.
MintedIds == {<<"N1", "N2", "N3", "N4">>[k] : k \in 1..MaxSaveCalls}

\* A remote operation succeeds: the backend applies it, a created record
\* getting an identifier no record has, and the viewer query is invalidated.
SettleOk ==
    /\ \E i \in pending :
          /\ pending' = pending \ {i}
          /\ IF calls[i].op = "savePost"
                THEN \E newId \in MintedIds \ {remoteSave[k].id : k \in 1..Len(remoteSave)} :
                        remoteSave' = Applied(remoteSave, calls[i], newId)
                ELSE remoteSave' = Applied(remoteSave, calls[i], Absent)
          /\ remoteLikes' = AppliedLikes(remoteLikes, calls[i])
    /\ stale' = TRUE
    /\ UNCHANGED <<views, rejected, post, userId, currentUser, likes, isSaved, calls,
                   likeLog, nSave>>

\* The component told of a failure undoes the optimistic write of the call.
OnRejected_Rollback(c) ==
    IF c.op = "likePost"
        THEN likes' = NewLikes(likes, userId) /\ isSaved' = isSaved
        ELSE isSaved' = ~isSaved /\ likes' = likes

\* What the component does when a call it made is rejected: the handlers
\* pass mutate() the variables alone, no callback, so nothing runs.
OnRejected(c) == UNCHANGED <<likes, isSaved>>

\* A remote operation fails: the backend is unchanged.
SettleFail ==
    /\ \E i \in pending :
          /\ pending' = pending \ {i}
          /\ rejected' = rejected \cup {i}
          /\ OnRejected(calls[i])
    /\ stale' = TRUE
    /\ UNCHANGED <<views, remoteLikes, post, userId, currentUser, calls, remoteSave,
                   likeLog, nSave>>

\* The viewer query delivers the backend's records; the effect runs when
\* the snapshot differs from the one rendered before.
Refetch ==
    /\ stale
    /\ stale' = FALSE
    /\ currentUser' = SnapshotOf(remoteSave)
    /\ isSaved' = IF currentUser' # currentUser
                     THEN Derive(currentUser', post)
                     ELSE isSaved
    /\ UNCHANGED <<views, rejected, remoteLikes, post, userId, likes, calls, pending,
                   remoteSave, likeLog, nSave>>

\* The state after mount with the viewer snapshot fetched from the backend.
InitRemote ==
    /\ post \in [id : {Absent, "P1"}, likes : {[isArray |-> TRUE, items |-> <<>>]}]
    /\ userId \in {Absent, "U1"}
    /\ remoteSave \in RemoteSaveLists
    /\ remoteLikes = likesList(post)
    /\ currentUser = SnapshotOf(remoteSave)
    /\ likes = likesList(post)
    /\ isSaved = Derive(currentUser, post)
    /\ calls = <<>>
    /\ pending = {}
    /\ rejected = {}
    /\ views = <<>>
    /\ stale = FALSE
    /\ likeLog = <<likes>>
    /\ nSave = 0

\* The handlers run while fewer than MaxRemoteCalls calls have been issued.
RemoteRoom == Len(calls) < MaxRemoteCalls

NextRemote ==
    \/ (RemoteRoom /\ HandleLikePost)
    \/ (RemoteRoom /\ HandleSavePost)
    \/ SettleOk
    \/ SettleFail
    \/ Refetch

SpecRemote == InitRemote /\ [][NextRemote]_vars

\* C9: once a toggle-save has been made, its remote operation has settled
\* and the viewer snapshot has been fetched again, isSaved is true exactly
\* when the backend holds a saved record of the viewer for the item.
C9_SavedMatchesRemote ==
    (nSave > 0 /\ pending = {} /\ ~stale)
        => (isSaved <=> RefsTo(SnapshotOf(remoteSave), post.id) # {})

NextRepeat == HandleSavePost

SpecRepeat == InitSave /\ [][NextRepeat]_vars

\* The call a toggle-save is to issue on the current viewer snapshot: a
\* delete of the first record that references the item, else a create.
ExpectedSaveCall ==
    IF RefsTo(currentUser, post.id) # {}
        THEN DeleteSavedPostCall(
                currentUser.save[FirstOf(RefsTo(currentUser, post.id))].id)
        ELSE SavePostCall(post.id, userId)

SameBranchEachTime ==
    /\ Len(calls) = nSave
    /\ \A k \in 1..nSave : calls[k] = ExpectedSaveCall
    /\ nSave >= 1 => (isSaved <=> RefsTo(currentUser, post.id) = {})

\* C12 as stated: toggle-saves made on an unchanged viewer snapshot choose
\* the same branch: from an unsaved snapshot each issues a create for the
\* same viewer and item and leaves isSaved true; from a saved snapshot each
\* issues a delete of the same record identifier and leaves isSaved false.
C12_SameBranchAlways == nSave >= 2 => SameBranchEachTime

\* C12 amended: the same, for toggle-saves made with the item and viewer
\* identifiers present and, where a record is resolved, its identifier
\* present.
C12_SameBranch ==
    (/\ nSave >= 2
     /\ post.id # Absent
     /\ userId # Absent
     /\ RefsTo(currentUser, post.id) # {}
           => currentUser.save[FirstOf(RefsTo(currentUser, post.id))].id # Absent)
        => SameBranchEachTime

\* Two toggle-saves on one unsaved snapshot: the second ran with isSaved
\* already true and issued the create again.
C12_Witness ==
    /\ nSave = 2
    /\ calls = <<SavePostCall("P1", "U1"), SavePostCall("P1", "U1")>>
    /\ isSaved
    /\ RefsTo(currentUser, post.id) = {}

(***************************************************************************)
(* Two viewers, each with a view of the same item mounted from the same    *)
(* item snapshot, against the backend's like list.                         *)
(***************************************************************************)
ViewNames == {"A", "B"}

\* handleLikePost of view v sending the pre-toggle `likes` state.
ViewLikePost_StaleCall(v) ==
    /\ views[v].n < MaxViewToggles
    /\ LET newLikes == NewLikes(views[v].likes, views[v].userId)
       IN  /\ views' = [views EXCEPT ![v].likes = newLikes, ![v].n = @ + 1]
           /\ IF post.id # Absent
                 THEN Issue(LikePostCall(post.id, views[v].likes))
                 ELSE UNCHANGED <<calls, pending>>
    /\ UNCHANGED <<post, userId, currentUser, likes, isSaved, remoteSave, remoteLikes,
                   stale, rejected, likeLog, nSave>>

\* handleLikePost of view v: it toggles that view's viewer in that view's
\* local sequence and issues the update carrying the whole new sequence.
ViewLikePost(v) ==
    /\ views[v].n < MaxViewToggles
    /\ LET newLikes == NewLikes(views[v].likes, views[v].userId)
       IN  /\ views' = [views EXCEPT ![v].likes = newLikes, ![v].n = @ + 1]
           /\ IF post.id # Absent
                 THEN Issue(LikePostCall(post.id, newLikes))
                 ELSE UNCHANGED <<calls, pending>>
    /\ UNCHANGED <<post, userId, currentUser, likes, isSaved, remoteSave, remoteLikes,
                   stale, rejected, likeLog, nSave>>

\* Both views are mounted from the item snapshot the backend holds, by two
\* different viewers.
InitTwoViews ==
    /\ post \in [id : {Absent, "P1"}, likes : LikesValues]
    /\ \E a, b \in Users :
          /\ a # b
          /\ views = [v \in ViewNames |->
                        [userId |-> IF v = "A" THEN a ELSE b,
                         likes |-> likesList(post),
                         n |-> 0]]
    /\ remoteLikes = likesList(post)
    /\ userId = Absent
    /\ currentUser = NoUser
    /\ likes = likesList(post)
    /\ isSaved = FALSE
    /\ calls = <<>>
    /\ pending = {}
    /\ rejected = {}
    /\ remoteSave = <<>>
    /\ stale = FALSE
    /\ likeLog = <<likes>>
    /\ nSave = 0

NextTwoViews == (\E v \in ViewNames : ViewLikePost(v)) \/ SettleOk

SpecTwoViews == InitTwoViews /\ [][NextTwoViews]_vars

\* Neither viewer is in the item snapshot, each view has made one
\* toggle-like, and both updates have been applied.
BothLikedAndApplied ==
    /\ ~checkIsLiked(likesList(post), views["A"].userId)
    /\ ~checkIsLiked(likesList(post), views["B"].userId)
    /\ views["A"].n = 1 /\ views["B"].n = 1
    /\ Len(calls) = 2 /\ pending = {}

\* C13 as stated: once both viewers' like-updates are applied, in either
\* order, the backend's like list of the item holds both viewers.
C13_BothLikesKept ==
    BothLikedAndApplied
        => /\ checkIsLiked(remoteLikes, views["A"].userId)
           /\ checkIsLiked(remoteLikes, views["B"].userId)

\* C13 amended: once both viewers' like-updates are applied, in either
\* order, the backend's like list of the item is the list one of the two
\* updates carried: the item snapshot with exactly one of the two viewers
\* appended.
C13_OneLikeKept ==
    BothLikedAndApplied
        => remoteLikes \in {Append(likesList(post), views["A"].userId),
                            Append(likesList(post), views["B"].userId)}

\* Both updates are applied, the one issued first having been applied last:
\* the backend's list is the list of the first call, without the viewer of
\* the second.
C13_Witness ==
    /\ BothLikedAndApplied
    /\ remoteLikes = calls[1].likesArray
    /\ remoteLikes # calls[2].likesArray

====
